---- MODULE Spec2Model ----
(***************************************************************************)
(* Yggdrasil, 10x realm: TenXProject (project orchestrator and sample      *)
(* grouper) and TenXUtils (decision table).                                *)
(*                                                                         *)
(* Strings the code inspects character by character (sample ids, customer  *)
(* names) are sequences of one-character strings.  A dotted field path is  *)
(* a sequence of tokens in which "." is the separator character.  A        *)
(* project document (nested dicts) is the set of key paths at which a dict *)
(* sits (dicts), the values of its leaves (val) and its samples mapping in *)
(* insertion order (samples).                                              *)
(***************************************************************************)
EXTENDS Integers, Sequences, FiniteSets, TLC

VARIABLES
    doc,            \* self.doc
    proceed,        \* self.proceed: "unset" before __init__, then "True" or "False"
    project_info,   \* self.project_info
    project_dir,    \* self.project_dir: "unset", "None" or "created"
    case_type,      \* self.case_type
    status,         \* self.status ("unset" while the attribute does not exist)
    samples,        \* self.samples
    pc,             \* position of the caller / of the process() coroutine
    tasks,          \* state of each sample task handed to asyncio.gather
    grouped,        \* number of calls of the grouper made by process()
    finalized,      \* finalize_project() has run
    db_updates,     \* document updates made through self.ydm
    g_in,           \* grouper run on its own: the samples mapping
    g_epoch,        \* grouper run on its own: the format epoch
    g_out,          \* grouper run on its own: the result
    f_name,         \* feature identifier run on its own: the customer_name
    f_out,          \* feature identifier run on its own: the result
    dt_file,        \* content of the decision table source
    dt_reads,       \* number of times the source was read
    dt_queries,     \* number of queries issued
    dt_query,       \* last query issued
    dt_result,      \* answer to the last query
    dt_tables       \* the rule tables the queries so far were answered against

vars == <<doc, proceed, project_info, project_dir, case_type, status, samples, pc,
          tasks, grouped, finalized, db_updates, g_in, g_epoch, g_out,
          f_name, f_out,
          dt_file, dt_reads, dt_queries, dt_query, dt_result, dt_tables>>

orchVars == <<doc, proceed, project_info, project_dir, case_type, status, samples,
              pc, tasks, grouped, finalized, db_updates>>
grouperVars == <<g_in, g_epoch, g_out, f_name, f_out>>
tableVars == <<dt_file, dt_reads, dt_queries, dt_query, dt_result, dt_tables>>

----------------------------------------------------------------------------
(* Bounds *)

MaxSamples == 3
MaxQueries == 3

----------------------------------------------------------------------------
(* String primitives *)

\* sub occurs in s at position i
StartsAt(s, sub, i) ==
    /\ i + Len(sub) - 1 <= Len(s)
    /\ SubSeq(s, i, i + Len(sub) - 1) = sub

RECURSIVE FindFrom(_, _, _)
\* least position >= i at which sub occurs in s, 0 when there is none
FindFrom(s, sub, i) ==
    IF i + Len(sub) - 1 > Len(s) THEN 0
    ELSE IF StartsAt(s, sub, i) THEN i
    ELSE FindFrom(s, sub, i + 1)

\* `sub in s'
Contains(s, sub) == FindFrom(s, sub, 1) # 0

\* s.split(sub)[0]
SplitFirst(s, sub) ==
    IF Contains(s, sub) THEN SubSeq(s, 1, FindFrom(s, sub, 1) - 1) ELSE s

RECURSIVE SplitDots(_, _)
\* field_path.split('.'), cur being the segment collected so far
SplitDots(s, cur) ==
    IF s = <<>> THEN <<cur>>
    ELSE IF Head(s) = "." THEN <<cur>> \o SplitDots(Tail(s), <<>>)
    ELSE SplitDots(Tail(s), Append(cur, Head(s)))

\* a segment is the concatenation of its tokens; the documents below use
\* one-token keys
Key(seg) == IF Len(seg) = 1 THEN seg[1] ELSE "?"

RECURSIVE ReplaceDots(_)
\* str.replace(".", "__")
ReplaceDots(s) ==
    IF s = <<>> THEN <<>>
    ELSE IF Head(s) = "." THEN <<"_", "_">> \o ReplaceDots(Tail(s))
    ELSE <<Head(s)>> \o ReplaceDots(Tail(s))

\* str.lower() on the manual-status values of the documents below
Lower(s) ==
    CASE s = "Aborted" -> "aborted"
      [] s = "ABORTED" -> "aborted"
      [] s = "Passed" -> "passed"
      [] OTHER -> s

----------------------------------------------------------------------------
(* Configuration (10x_config.json) *)

\* config["required_fields"]
required_fields == << <<"project_id">>, <<"details", ".", "organism">> >>

\* config["feature_map"]["old_format"], in configuration order
feature_map_old ==
    << [suffix |-> <<"H", "T", "O">>, feature |-> "hashing"],
       [suffix |-> <<"A", "D", "T">>, feature |-> "cite"] >>

\* config["feature_map"]["new_format"]
feature_map_new == [d \in {"1", "2"} |-> IF d = "1" THEN "vdj" ELSE "hashing"]

----------------------------------------------------------------------------
(* Project documents *)

\* `key in data', data being what sits at path p of document d
HasKey(d, p, key) ==
    \/ Append(p, key) \in d.dicts
    \/ Append(p, key) \in DOMAIN d.val

\* dict.get on a leaf of the document
Get(d, p, default) == IF p \in DOMAIN d.val THEN d.val[p] ELSE default

\* a walk that stops after the first segment of the path
IsFieldWalkTopOnly(keys, d, p) ==
    keys = <<>> \/ (p \in d.dicts /\ HasKey(d, p, Key(Head(keys))))

RECURSIVE IsFieldWalk(_, _, _)
\* the loop of _is_field: p is the position reached in the document
IsFieldWalk(keys, d, p) ==
    IF keys = <<>> THEN TRUE
    ELSE IF p \in d.dicts /\ HasKey(d, p, Key(Head(keys)))
         THEN IsFieldWalk(Tail(keys), d, Append(p, Key(Head(keys))))
         ELSE FALSE

_is_field(field_path, d) == IsFieldWalk(SplitDots(field_path, <<>>), d, <<>>)

_check_required_fields(d) ==
    LET missing_keys == {i \in 1..Len(required_fields) :
                            ~ _is_field(required_fields[i], d)}
    IN  missing_keys = {}

NoProjectInfo == [kind |-> "unset", project_name |-> <<>>, case_type |-> "None"]
EmptyProjectInfo == [kind |-> "empty", project_name |-> <<>>, case_type |-> "None"]

_extract_project_info(d) ==
    IF <<"details">> \in DOMAIN d.val \/ <<"project_name">> \in d.dicts
    THEN EmptyProjectInfo      \* .get / .replace on a non-dict raises, caught
    ELSE [kind |-> "full",
          project_name |-> ReplaceDots(Get(d, <<"project_name">>, <<>>)),
          case_type |->
              IF Get(d, <<"details", "library_prep_option">>, <<>>) # <<>>
              THEN "old_format" ELSE "new_format"]

----------------------------------------------------------------------------
(* Sample grouper *)

\* one raw sample record: its key in the samples mapping, its customer_name
\* and its details["status_(manual)"]
Sample(id, name, st) == [id |-> id, customer_name |-> name, status |-> st]

is_aborted(r) == Lower(r.status) = "aborted"

RECURSIVE FeatureScanOldReverse(_, _)
\* a scan that takes the entries of the feature map from the last to the first
FeatureScanOldReverse(customer_name, i) ==
    IF i > Len(feature_map_old) THEN [feature |-> "None", original |-> <<>>]
    ELSE LET entry == feature_map_old[Len(feature_map_old) + 1 - i]
             suffix_with_underscore == <<"_">> \o entry.suffix
         IN  IF Contains(customer_name, suffix_with_underscore)
             THEN [feature |-> entry.feature,
                   original |-> SplitFirst(customer_name, suffix_with_underscore)]
             ELSE FeatureScanOldReverse(customer_name, i + 1)

RECURSIVE FeatureScanOld(_, _)
\* the loop of identify_feature_old from entry i of the feature map on
FeatureScanOld(customer_name, i) ==
    IF i > Len(feature_map_old) THEN [feature |-> "None", original |-> <<>>]
    ELSE LET suffix_with_underscore == <<"_">> \o feature_map_old[i].suffix
         IN  IF Contains(customer_name, suffix_with_underscore)
             THEN [feature |-> feature_map_old[i].feature,
                   original |-> SplitFirst(customer_name, suffix_with_underscore)]
             ELSE FeatureScanOld(customer_name, i + 1)

identify_feature_old(sample_info) == FeatureScanOld(sample_info.customer_name, 1)

\* identify_feature(sample_id): "IndexError" on an empty id
identify_feature(sample_id) ==
    IF sample_id = <<>> THEN "IndexError"
    ELSE IF sample_id[Len(sample_id)] \in DOMAIN feature_map_new
         THEN feature_map_new[sample_id[Len(sample_id)]]
         ELSE "None"

\* a call of identify_feature with the given positional arguments (self apart)
identify_feature_call(args) ==
    IF Len(args) = 1
    THEN [raised |-> identify_feature(args[1]) = "IndexError",
          value |-> identify_feature(args[1])]
    ELSE [raised |-> TRUE, value |-> "TypeError"]

\* subsample_groups is a dict in insertion order: a sequence of buckets
HasBucket(groups, k) == \E i \in 1..Len(groups) : groups[i].key = k

EnsureBucket(groups, k) ==
    IF HasBucket(groups, k) THEN groups
    ELSE Append(groups, [key |-> k, subs |-> <<>>])

\* an append that lands in the first bucket, whatever the key
AppendSubFirst(groups, k, sub) ==
    [i \in 1..Len(groups) |->
        IF i = 1
        THEN [groups[i] EXCEPT !.subs = Append(@, sub)]
        ELSE groups[i]]

AppendSub(groups, k, sub) ==
    [i \in 1..Len(groups) |->
        IF groups[i].key = k
        THEN [groups[i] EXCEPT !.subs = Append(@, sub)]
        ELSE groups[i]]

TenXSubsample(sample_id, feature) == [sample_id |-> sample_id, feature |-> feature]

TenXCompositeSample(original_sample_id, subsamples) ==
    [kind |-> "composite", id |-> original_sample_id, subsamples |-> subsamples,
     data |-> <<>>]

\* sample_data names the raw record that backs the sample, by its key
TenXOriginalSample(original_sample_id, sample_data) ==
    [kind |-> "original", id |-> original_sample_id, subsamples |-> <<>>,
     data |-> sample_data]

RECURSIVE OldLoop(_, _)
\* first loop of extract_subsamples_old_case
OldLoop(recs, groups) ==
    IF recs = <<>> THEN groups
    ELSE LET r == Head(recs)
             f == identify_feature_old(r)
         IN  IF is_aborted(r) THEN OldLoop(Tail(recs), groups)
             ELSE IF f.feature # "None"
             THEN OldLoop(Tail(recs),
                          AppendSub(EnsureBucket(groups, f.original), f.original,
                                    TenXSubsample(r.id, f.feature)))
             ELSE OldLoop(Tail(recs), EnsureBucket(groups, r.id))

extract_subsamples_old_case(sample_data) ==
    LET subsample_groups == OldLoop(sample_data, <<>>)
    IN  [i \in 1..Len(subsample_groups) |->
            IF subsample_groups[i].subs # <<>>
            THEN TenXCompositeSample(subsample_groups[i].key, subsample_groups[i].subs)
            ELSE TenXOriginalSample(subsample_groups[i].key, subsample_groups[i].key)]

RECURSIVE NewLoop(_, _)
\* first loop of extract_subsamples_new_case; an exception ends it
NewLoop(recs, groups) ==
    IF recs = <<>> THEN [raised |-> FALSE, groups |-> groups]
    ELSE LET r == Head(recs)
             call == identify_feature_call(<<r.id, "new_format">>)
             original_sample_id == SubSeq(r.id, 1, Len(r.id) - 1)
         IN  IF is_aborted(r) THEN NewLoop(Tail(recs), groups)
             ELSE IF call.raised THEN [raised |-> TRUE, groups |-> groups]
             ELSE IF call.value # "None"
             THEN NewLoop(Tail(recs),
                          AppendSub(EnsureBucket(groups, original_sample_id),
                                    original_sample_id,
                                    TenXSubsample(r.id, call.value)))
             ELSE NewLoop(Tail(recs), groups)

extract_subsamples_new_case(sample_data) ==
    LET looped == NewLoop(sample_data, <<>>)
        subsample_groups == looped.groups
    IN  IF looped.raised THEN [raised |-> TRUE, out |-> <<>>]
        ELSE [raised |-> FALSE,
              out |-> [i \in 1..Len(subsample_groups) |->
                  IF Len(subsample_groups[i].subs) > 1
                  THEN TenXCompositeSample(subsample_groups[i].key,
                                           subsample_groups[i].subs)
                  ELSE TenXOriginalSample(subsample_groups[i].key,
                                          subsample_groups[i].subs[1].sample_id)]]

----------------------------------------------------------------------------
(* Project orchestrator: the documents a run starts from *)

A == <<"A">>
B == <<"B">>
C == <<"C">>
D == <<"D">>
A_HTO == <<"A", "_", "H", "T", "O">>
A_ADT == <<"A", "_", "A", "D", "T">>

BaseVal ==
    (<<"project_name">> :> <<"P", ".", "1">>) @@
    (<<"project_id">> :> <<"P1">>) @@
    (<<"details", "organism">> :> <<"human">>) @@
    (<<"details", "library_construction_method">> :> <<"10X">>)

Without(v, keys) == [p \in (DOMAIN v) \ keys |-> v[p]]

\* the shapes of project document a run is started on
DocShapes ==
    { [dicts |-> {<<>>, <<"details">>},                   \* legacy project
       val |-> BaseVal @@ (<<"details", "library_prep_option">> :> <<"hashing">>)],
      [dicts |-> {<<>>, <<"details">>}, val |-> BaseVal], \* current project
      [dicts |-> {<<>>, <<"details">>},                   \* no project_id
       val |-> Without(BaseVal, {<<"project_id">>})],
      [dicts |-> {<<>>, <<"details">>},                   \* no details.organism
       val |-> Without(BaseVal, {<<"details", "organism">>})],
      [dicts |-> {<<>>},                                  \* details is a string
       val |-> Without(BaseVal, {<<"details", "organism">>,
                                 <<"details", "library_construction_method">>})
               @@ (<<"details">> :> <<"text">>)],
      [dicts |-> {<<>>},                                  \* no details at all
       val |-> Without(BaseVal, {<<"details", "organism">>,
                                 <<"details", "library_construction_method">>})] }

\* the samples mappings of those documents
DocSamples ==
    { <<>>,
      <<Sample(A, A, "")>>,
      <<Sample(A, A, "Aborted")>>,
      <<Sample(A, A, ""), Sample(B, B, "Passed"), Sample(C, C, "")>>,
      <<Sample(A, A, ""), Sample(B, A_HTO, ""), Sample(C, C, "ABORTED")>>,
      <<Sample(A, A, ""), Sample(B, B, ""), Sample(C, A_ADT, ""), Sample(D, D, "")>> }

Docs == { [dicts |-> sh.dicts, val |-> sh.val, samples |-> sm] :
            sh \in DocShapes, sm \in {x \in DocSamples : Len(x) <= MaxSamples} }

\* what a sample task can end as: it returns having succeeded, it returns
\* having recorded its own failure, or it raises
Outcomes == {"ok", "failed", "raised"}

TaskStates == {"scheduled", "running"} \cup Outcomes

Done(t) == t \in Outcomes

----------------------------------------------------------------------------
(* Project orchestrator: operations *)

FeatureIdle == f_name = <<>> /\ f_out = [feature |-> "None", original |-> <<>>]

GrouperIdle ==
    /\ g_in = <<>>
    /\ g_epoch = "none"
    /\ g_out = [raised |-> FALSE, out |-> <<>>]
    /\ FeatureIdle
TableIdle ==
    /\ dt_file = [kind |-> "missing", rules |-> <<>>]
    /\ dt_reads = 0
    /\ dt_queries = 0
    /\ dt_query = [method |-> "none", features |-> <<>>]
    /\ dt_result = [library_prep_method |-> "None", features |-> <<>>, pipeline |-> "None"]
    /\ dt_tables = {}

Init ==
    /\ doc \in Docs
    /\ proceed = "unset"
    /\ project_info = NoProjectInfo
    /\ project_dir = "unset"
    /\ case_type = "unset"
    /\ status = "unset"
    /\ samples = <<>>
    /\ pc = "start"
    /\ tasks = <<>>
    /\ grouped = 0
    /\ finalized = FALSE
    /\ db_updates = 0
    /\ GrouperIdle
    /\ TableIdle

\* ensure_project_directory: mkdir succeeds or raises; the exception is caught
ensure_project_directory(info, mkdir_ok) ==
    IF info.kind = "full" /\ mkdir_ok THEN "created" ELSE "None"

\* TenXProject.__init__
Construct ==
    /\ pc = "start"
    /\ \E mkdir_ok \in BOOLEAN :
        LET ok == _check_required_fields(doc)
            info == _extract_project_info(doc)
        IN  /\ proceed' = IF ok THEN "True" ELSE "False"
            /\ IF ok
               THEN /\ project_info' = info
                    /\ project_dir' = ensure_project_directory(info, mkdir_ok)
                    /\ samples' = <<>>
                    /\ case_type' = info.case_type
                    /\ status' = "initialized"
               ELSE UNCHANGED <<project_info, project_dir, samples, case_type, status>>
    /\ pc' = "constructed"
    /\ UNCHANGED <<doc, tasks, grouped, finalized, db_updates>>
    /\ UNCHANGED <<grouperVars, tableVars>>

\* a test of the sample list that never takes the early return
no_samples_never(found) == FALSE

\* `not self.samples'
no_samples(found) == found = <<>>

\* process() up to its await: AttributeError / KeyError on project_info in the
\* first statement, else grouping, the early return, or the dispatch of one
\* task per grouped sample
ProcessCall ==
    /\ pc = "constructed"
    /\ IF project_info.kind # "full"
       THEN /\ pc' = "raised"
            /\ UNCHANGED <<status, samples, tasks, grouped>>
       ELSE LET found == IF case_type = "old_format"
                         THEN extract_subsamples_old_case(doc.samples)
                         ELSE samples
            IN  /\ status' = "processing"
                /\ samples' = found
                /\ grouped' = IF case_type = "old_format" THEN grouped + 1 ELSE grouped
                /\ IF no_samples(found)
                   THEN pc' = "returned" /\ tasks' = tasks
                   ELSE /\ pc' = "gathering"
                        /\ tasks' = [i \in 1..Len(found) |-> "scheduled"]
    /\ UNCHANGED <<doc, proceed, project_info, project_dir, case_type, finalized,
                   db_updates>>
    /\ UNCHANGED <<grouperVars, tableVars>>

\* the event loop starts a scheduled sample task
TaskStart(i) ==
    /\ i \in 1..Len(tasks)
    /\ tasks[i] = "scheduled"
    /\ tasks' = [tasks EXCEPT ![i] = "running"]
    /\ UNCHANGED <<doc, proceed, project_info, project_dir, case_type, status,
                   samples, pc, grouped, finalized, db_updates>>
    /\ UNCHANGED <<grouperVars, tableVars>>

\* a running sample task ends; a task that returns has updated its document
TaskFinish(i, outcome) ==
    /\ i \in 1..Len(tasks)
    /\ tasks[i] = "running"
    /\ tasks' = [tasks EXCEPT ![i] = outcome]
    /\ db_updates' = IF outcome = "raised" THEN db_updates ELSE db_updates + 1
    /\ UNCHANGED <<doc, proceed, project_info, project_dir, case_type, status,
                   samples, pc, grouped, finalized>>
    /\ UNCHANGED <<grouperVars, tableVars>>

\* finalize_project
finalize_project == status' = "completed" /\ finalized' = TRUE

\* a join that is over as soon as one task is done
GatherDoneFirstCompleted(ts) == \E i \in 1..Len(ts) : Done(ts[i])

\* asyncio.gather is done once every task is done
GatherDone(ts) == \A i \in 1..Len(ts) : Done(ts[i])

\* asyncio.gather raises the first exception of its tasks into the awaiter
GatherFailed(ts) == \E i \in 1..Len(ts) : ts[i] = "raised"

\* the await of process() returns: every task returned; finalize_project follows
GatherReturn ==
    /\ pc = "gathering"
    /\ GatherDone(tasks)
    /\ ~ GatherFailed(tasks)
    /\ finalize_project
    /\ pc' = "returned"
    /\ UNCHANGED <<doc, proceed, project_info, project_dir, case_type, samples,
                   tasks, grouped, db_updates>>
    /\ UNCHANGED <<grouperVars, tableVars>>

\* the await of process() raises: the exception leaves process(), the other
\* tasks are not cancelled
GatherRaise ==
    /\ pc = "gathering"
    /\ GatherFailed(tasks)
    /\ pc' = "raised"
    /\ UNCHANGED <<doc, proceed, project_info, project_dir, case_type, status,
                   samples, tasks, grouped, finalized, db_updates>>
    /\ UNCHANGED <<grouperVars, tableVars>>

Next ==
    \/ Construct
    \/ ProcessCall
    \/ \E i \in 1..MaxSamples : TaskStart(i)
    \/ \E i \in 1..MaxSamples, o \in Outcomes : TaskFinish(i, o)
    \/ GatherReturn
    \/ GatherRaise

Spec == Init /\ [][Next]_vars

----------------------------------------------------------------------------
(* The grouper on its own: every samples mapping, either format epoch *)

A1 == <<"A", "1">>
A2 == <<"A", "2">>
A_ADT_HTO == <<"A", "_", "A", "D", "T", "_", "H", "T", "O">>

GIds == {A, B, A1, A2}
GNames == {A, A_HTO, A_ADT_HTO}
GStatuses == {"", "Aborted", "ABORTED"}

GRecords == { Sample(id, name, st) : id \in GIds, name \in GNames, st \in GStatuses }

\* the keys of a mapping are distinct
DistinctIds(recs) ==
    \A i, j \in 1..Len(recs) : i # j => recs[i].id # recs[j].id

GInputs ==
    UNION { {recs \in [1..n -> GRecords] : DistinctIds(recs)} : n \in 0..MaxSamples }

NoDoc == [dicts |-> {<<>>}, val |-> <<>>, samples |-> <<>>]

OrchIdle ==
    /\ doc = NoDoc
    /\ proceed = "unset"
    /\ project_info = NoProjectInfo
    /\ project_dir = "unset"
    /\ case_type = "unset"
    /\ status = "unset"
    /\ samples = <<>>
    /\ tasks = <<>>
    /\ grouped = 0
    /\ finalized = FALSE
    /\ db_updates = 0

InitGrouper ==
    /\ OrchIdle
    /\ TableIdle
    /\ pc = "g_start"
    /\ g_in \in GInputs
    /\ g_epoch \in {"old_format", "new_format"}
    /\ g_out = [raised |-> FALSE, out |-> <<>>]
    /\ FeatureIdle

GroupOld ==
    /\ pc = "g_start"
    /\ g_epoch = "old_format"
    /\ g_out' = [raised |-> FALSE, out |-> extract_subsamples_old_case(g_in)]
    /\ pc' = "g_done"
    /\ UNCHANGED <<g_in, g_epoch, f_name, f_out>>
    /\ UNCHANGED <<doc, proceed, project_info, project_dir, case_type, status,
                   samples, tasks, grouped, finalized, db_updates>>
    /\ UNCHANGED tableVars

GroupNew ==
    /\ pc = "g_start"
    /\ g_epoch = "new_format"
    /\ g_out' = extract_subsamples_new_case(g_in)
    /\ pc' = "g_done"
    /\ UNCHANGED <<g_in, g_epoch, f_name, f_out>>
    /\ UNCHANGED <<doc, proceed, project_info, project_dir, case_type, status,
                   samples, tasks, grouped, finalized, db_updates>>
    /\ UNCHANGED tableVars

NextGrouper == GroupOld \/ GroupNew

SpecGrouper == InitGrouper /\ [][NextGrouper]_vars

----------------------------------------------------------------------------
(* The legacy feature identifier on its own: customer names put together *)
(* from the pieces the naming convention uses                             *)

MaxPieces == 4

Pieces == { <<"X">>, <<"3">>, <<"_">>, <<"H", "T", "O">>, <<"A", "D", "T">> }

RECURSIVE Flatten(_)
Flatten(ps) == IF ps = <<>> THEN <<>> ELSE Head(ps) \o Flatten(Tail(ps))

X3_24_025_HTO ==
    <<"X", "3", "_", "2", "4", "_", "0", "2", "5", "_", "H", "T", "O">>

FNames ==
    {X3_24_025_HTO} \cup
    UNION { {Flatten(ps) : ps \in [1..n -> Pieces]} : n \in 0..MaxPieces }

InitFeature ==
    /\ OrchIdle
    /\ TableIdle
    /\ pc = "f_start"
    /\ g_in = <<>>
    /\ g_epoch = "none"
    /\ g_out = [raised |-> FALSE, out |-> <<>>]
    /\ f_name \in FNames
    /\ f_out = [feature |-> "None", original |-> <<>>]

\* one call of identify_feature_old on a record with that customer_name
IdentifyOld ==
    /\ pc = "f_start"
    /\ f_out' = identify_feature_old(Sample(<<>>, f_name, ""))
    /\ pc' = "f_done"
    /\ UNCHANGED <<g_in, g_epoch, g_out, f_name>>
    /\ UNCHANGED <<doc, proceed, project_info, project_dir, case_type, status,
                   samples, tasks, grouped, finalized, db_updates>>
    /\ UNCHANGED tableVars

NextFeature == IdentifyOld

SpecFeature == InitFeature /\ [][NextFeature]_vars

----------------------------------------------------------------------------
(* The decision table on its own *)

Tags == {"hashing", "cite"}
Methods == {"10X", "10X-FB"}
MaxFeatures == 2

FeatureLists == UNION { [1..n -> Tags] : n \in 0..MaxFeatures }

Rule(m, fs, cfg) == [library_prep_method |-> m, features |-> fs, pipeline |-> cfg]

NoRule == Rule("None", <<>>, "None")

\* what the source 10x_decision_table.json can hold
TableFiles ==
    { [kind |-> "missing", rules |-> <<>>],
      [kind |-> "malformed", rules |-> <<>>],
      [kind |-> "object", rules |-> <<>>],
      [kind |-> "list", rules |-> <<>>],
      [kind |-> "list",
       rules |-> << Rule("10X", <<"hashing", "cite">>, "multi"),
                    Rule("10X", <<>>, "count"),
                    Rule("10X", <<"cite", "hashing">>, "multi-late") >>],
      [kind |-> "list",
       rules |-> << Rule("10X-FB", <<"hashing">>, "fb"),
                    Rule("10X", <<"hashing", "hashing">>, "count-h"),
                    Rule("10X", <<"hashing">>, "count-late") >>] }

\* load_decision_table: the rules, or [] when the file is missing, does not
\* parse or is not a list
load_decision_table(file) == IF file.kind = "list" THEN file.rules ELSE <<>>

\* a loader that keeps the table it read first and never opens the source again
reads_after_load_cached(file, reads) ==
    IF file.kind = "missing" THEN reads ELSE 1

\* the reads of the source after one more call of load_decision_table: the
\* file is opened unless Ygg.get_path did not find it
reads_after_load(file, reads) ==
    IF file.kind = "missing" THEN reads ELSE reads + 1

\* set(list)
ToSet(list) == {list[i] : i \in 1..Len(list)}

RECURSIVE ScanTableAsLists(_, _, _, _)
\* a scan that compares the feature lists themselves
ScanTableAsLists(table, i, library_prep_method, features) ==
    IF i > Len(table) THEN NoRule
    ELSE IF /\ table[i].library_prep_method = library_prep_method
            /\ table[i].features = features
         THEN table[i]
         ELSE ScanTableAsLists(table, i + 1, library_prep_method, features)

RECURSIVE ScanTable(_, _, _, _)
\* the loop of get_pipeline_info from entry i on
ScanTable(table, i, library_prep_method, features) ==
    IF i > Len(table) THEN NoRule
    ELSE IF /\ table[i].library_prep_method = library_prep_method
            /\ ToSet(table[i].features) = ToSet(features)
         THEN table[i]
         ELSE ScanTable(table, i + 1, library_prep_method, features)

get_pipeline_info(file, library_prep_method, features) ==
    ScanTable(load_decision_table(file), 1, library_prep_method, features)

InitTable ==
    /\ OrchIdle
    /\ GrouperIdle
    /\ pc = "t_idle"
    /\ dt_file \in TableFiles
    /\ dt_reads = 0
    /\ dt_queries = 0
    /\ dt_query = [method |-> "none", features |-> <<>>]
    /\ dt_result = NoRule
    /\ dt_tables = {}

\* one call of get_pipeline_info, load_decision_table included
Query(m, fs) ==
    /\ pc = "t_idle"
    /\ dt_queries < MaxQueries
    /\ dt_queries' = dt_queries + 1
    /\ dt_query' = [method |-> m, features |-> fs]
    /\ dt_reads' = reads_after_load(dt_file, dt_reads)
    /\ dt_tables' = dt_tables \cup {load_decision_table(dt_file)}
    /\ dt_result' = get_pipeline_info(dt_file, m, fs)
    /\ UNCHANGED <<dt_file, pc>>
    /\ UNCHANGED orchVars
    /\ UNCHANGED grouperVars

NextTable == \E m \in Methods, fs \in FeatureLists : Query(m, fs)

SpecTable == InitTable /\ [][NextTable]_vars

----------------------------------------------------------------------------
(* Properties of the project orchestrator *)

\* the keys of a dotted path, and what it is for them to resolve in a document:
\* every proper prefix is a dict and every prefix is present
Resolves(d, keys) ==
    \A k \in 1..Len(keys) :
        /\ SubSeq(keys, 1, k - 1) \in d.dicts
        /\ SubSeq(keys, 1, k) \in d.dicts \cup DOMAIN d.val

KeysOf(field_path) ==
    LET segs == SplitDots(field_path, <<>>) IN [i \in 1..Len(segs) |-> Key(segs[i])]

MissingRequired(d) ==
    \E i \in 1..Len(required_fields) : ~ Resolves(d, KeysOf(required_fields[i]))

AllFinished == \A i \in 1..Len(tasks) : tasks[i] \in {"ok", "failed", "raised"}

ProcessOver == pc \in {"returned", "raised"}

\* C1: batch independence.  Once process() is over on a batch that was
\* dispatched, every sample task has run to completion and finalize_project
\* has been reached, whether or not a task raised.
C1_BatchIndependence ==
    (ProcessOver /\ tasks # <<>>) => (finalized /\ AllFinished)

\* C2: required-field gate.  When a configured required field does not
\* resolve in the project document, no project directory is created, the
\* grouper is never called, no sample task is dispatched and no document is
\* updated, whatever has been invoked on the project.
C2_RequiredFieldGate ==
    MissingRequired(doc) =>
        /\ project_dir # "created"
        /\ grouped = 0
        /\ samples = <<>>
        /\ tasks = <<>>
        /\ db_updates = 0

\* process() has been called on a project whose document lacks a field
C2_Witness == MissingRequired(doc) /\ pc = "raised"

C3_Allowed(s, t) ==
    <<s, t>> \in { <<"unset", "initialized">>,
                   <<"initialized", "processing">>,
                   <<"processing", "completed">>,
                   <<"processing", "failed-partial">> }

\* C3: the status follows initialized -> processing -> completed or
\* initialized -> processing -> failed-partial only, and a project whose
\* validation failed has status "initialized" for good.
C3_StatusMachine ==
    [][ /\ status' # status => C3_Allowed(status, status')
        /\ proceed' = "False" => status' = "initialized" ]_vars

\* C6: the status is "completed" only if every dispatched sample succeeded.
C6_CompletedOnlyIfAllSucceeded ==
    status = "completed" => \A i \in 1..Len(tasks) : tasks[i] = "ok"

\* C7: the status does not change between dispatch and join: no step taken
\* while a dispatched task is unfinished changes it, and it becomes
\* "completed" only when every dispatched task has finished.
C7_StatusStableUntilJoin ==
    [][ /\ (tasks # <<>> /\ ~ AllFinished) => status' = status
        /\ (status' = "completed" /\ status # "completed") => AllFinished ]_vars

\* a batch of several tasks has been joined and finalized
C7_Witness == status = "completed" /\ Len(tasks) > 1

\* C8: no exception escapes __init__ or process().
C8_NoExceptionEscapes == pc # "raised"

----------------------------------------------------------------------------
(* Properties of the grouper *)

AbortedAnyCase(r) == r.status \in {"aborted", "Aborted", "ABORTED"}

\* record r appears in group g: as the Original Sample, as the original of
\* the Composite Sample, or as one of its subsamples
InGroup(r, g) ==
    \/ g.id = r.id
    \/ \E j \in 1..Len(g.subsamples) : g.subsamples[j].sample_id = r.id

GroupsOf(r) == {i \in 1..Len(g_out.out) : InGroup(r, g_out.out[i])}

\* C4: grouping completeness.  In either epoch every record that is not
\* aborted appears in exactly one group of the grouper's output.
C4_GroupingComplete ==
    pc = "g_done" =>
        \A k \in 1..Len(g_in) :
            ~ AbortedAnyCase(g_in[k]) => Cardinality(GroupsOf(g_in[k])) = 1

\* C5: aborted exclusion.  A record whose manual status is "aborted" in any
\* letter case appears in no group of the output: not as an Original Sample,
\* not as the original of a Composite Sample, not as a subsample.
C5_AbortedExcluded ==
    pc = "g_done" =>
        \A k \in 1..Len(g_in) :
            AbortedAnyCase(g_in[k]) => GroupsOf(g_in[k]) = {}

----------------------------------------------------------------------------
(* Properties of the decision table *)

LoadedRules == IF dt_file.kind = "list" THEN dt_file.rules ELSE <<>>

\* the rule and the query name the same method and the same features, the
\* order and the repetitions of the features apart
RuleMatches(rule, query) ==
    /\ rule.library_prep_method = query.method
    /\ \A i \in 1..Len(rule.features) :
           \E j \in 1..Len(query.features) : query.features[j] = rule.features[i]
    /\ \A j \in 1..Len(query.features) :
           \E i \in 1..Len(rule.features) : rule.features[i] = query.features[j]

Queried == dt_queries > 0

\* C9: get_pipeline_info returns the first rule of the table, in table order,
\* that matches the query, and None when no rule matches; the rule with
\* features [hashing, cite] answers the query [cite, hashing] and does not
\* answer the query [hashing].
C9_FirstMatchingRule ==
    Queried =>
        /\ IF \E i \in 1..Len(LoadedRules) : RuleMatches(LoadedRules[i], dt_query)
           THEN \E i \in 1..Len(LoadedRules) :
                   /\ RuleMatches(LoadedRules[i], dt_query)
                   /\ \A j \in 1..(i - 1) : ~ RuleMatches(LoadedRules[j], dt_query)
                   /\ dt_result = LoadedRules[i]
           ELSE dt_result = NoRule
        /\ (/\ Len(LoadedRules) > 0
            /\ LoadedRules[1] = Rule("10X", <<"hashing", "cite">>, "multi")
            /\ dt_query.method = "10X")
           => /\ dt_query.features = <<"cite", "hashing">> => dt_result = LoadedRules[1]
              /\ dt_query.features = <<"hashing">> => dt_result # LoadedRules[1]

\* the rule [hashing, cite] has answered the query [cite, hashing]
C9_Witness ==
    /\ dt_query = [method |-> "10X", features |-> <<"cite", "hashing">>]
    /\ dt_result = Rule("10X", <<"hashing", "cite">>, "multi")

----------------------------------------------------------------------------
(* Properties of the legacy feature identifier *)

\* sub stands in s from position k on
Occurs(s, sub, k) ==
    /\ k >= 1
    /\ k + Len(sub) - 1 <= Len(s)
    /\ \A j \in 1..Len(sub) : s[k + j - 1] = sub[j]

\* entry i of the feature map matches the name: it contains "_" + suffix
EntryMatches(name, i) ==
    \E k \in 1..Len(name) : Occurs(name, <<"_">> \o feature_map_old[i].suffix, k)

\* C11: identify_feature_old is first-match-wins in feature-map order: it
\* returns the tag of the first entry whose "_" + suffix the customer_name
\* contains, with everything before the first occurrence of that substring,
\* and (None, None) when no entry matches; X3_24_025_HTO gives
\* (hashing, X3_24_025).
C11_FirstSuffixWins ==
    pc = "f_done" =>
        /\ IF \E i \in 1..Len(feature_map_old) : EntryMatches(f_name, i)
           THEN \E i \in 1..Len(feature_map_old) :
                   /\ EntryMatches(f_name, i)
                   /\ \A j \in 1..(i - 1) : ~ EntryMatches(f_name, j)
                   /\ f_out.feature = feature_map_old[i].feature
                   /\ \E k \in 1..Len(f_name) :
                        /\ Occurs(f_name, <<"_">> \o feature_map_old[i].suffix, k)
                        /\ \A k2 \in 1..(k - 1) :
                             ~ Occurs(f_name, <<"_">> \o feature_map_old[i].suffix, k2)
                        /\ f_out.original = SubSeq(f_name, 1, k - 1)
           ELSE f_out = [feature |-> "None", original |-> <<>>]
        /\ f_name = X3_24_025_HTO =>
              f_out = [feature |-> "hashing",
                       original |-> <<"X", "3", "_", "2", "4", "_", "0", "2", "5">>]

\* a name that carries both suffixes, the second entry's first, was identified
C11_Witness ==
    /\ pc = "f_done"
    /\ EntryMatches(f_name, 1)
    /\ EntryMatches(f_name, 2)
    /\ f_out.feature = "hashing"
    /\ Len(f_out.original) < Len(f_name) - 4

----------------------------------------------------------------------------
(* Properties of the grouper's output *)

\* the input record with that key
RecordOf(sample_id) == CHOOSE r \in {g_in[k] : k \in 1..Len(g_in)} : r.id = sample_id

\* in the legacy epoch a customer_name resolves to id with tag: the first
\* entry of the feature map that matches it has that tag, and its "_" + suffix
\* stands first right after id
ResolvesOld(name, id, tag) ==
    \E i \in 1..Len(feature_map_old) :
        LET sep == <<"_">> \o feature_map_old[i].suffix
        IN  /\ \A j \in 1..(i - 1) : ~ EntryMatches(name, j)
            /\ feature_map_old[i].feature = tag
            /\ Occurs(name, sep, Len(id) + 1)
            /\ \A k \in 1..Len(id) : ~ Occurs(name, sep, k)
            /\ SubSeq(name, 1, Len(id)) = id

\* in the current epoch a sample id resolves to id with tag: it is id followed
\* by one assay digit that the digit map sends to tag
ResolvesNew(sample_id, id, tag) ==
    \E d \in DOMAIN feature_map_new :
        sample_id = Append(id, d) /\ feature_map_new[d] = tag

SubResolves(sub, id) ==
    /\ \E k \in 1..Len(g_in) : g_in[k].id = sub.sample_id
    /\ IF g_epoch = "old_format"
       THEN ResolvesOld(RecordOf(sub.sample_id).customer_name, id, sub.feature)
       ELSE ResolvesNew(sub.sample_id, id, sub.feature)

\* C12: composite invariant.  Every Composite Sample the grouper emits, in
\* either epoch, has at least one subsample, and every one of its subsamples
\* resolves to the composite's own original-sample id.
C12_CompositeInvariant ==
    pc = "g_done" =>
        \A i \in 1..Len(g_out.out) :
            g_out.out[i].kind = "composite" =>
                /\ Len(g_out.out[i].subsamples) >= 1
                /\ \A j \in 1..Len(g_out.out[i].subsamples) :
                       SubResolves(g_out.out[i].subsamples[j], g_out.out[i].id)

\* a Composite Sample of two subsamples was emitted beside another group
C12_Witness ==
    /\ pc = "g_done"
    /\ Len(g_out.out) > 1
    /\ \E i \in 1..Len(g_out.out) :
          g_out.out[i].kind = "composite" /\ Len(g_out.out[i].subsamples) = 2

\* the records of the input that are not aborted and whose id is id followed
\* by an assay digit of the digit map
BucketNew(id) ==
    {k \in 1..Len(g_in) :
        /\ ~ AbortedAnyCase(g_in[k])
        /\ \E d \in DOMAIN feature_map_new : g_in[k].id = Append(id, d)}

Stripped(sample_id) == SubSeq(sample_id, 1, Len(sample_id) - 1)

\* C13: current-epoch grouping.  For a new_format mapping every record that
\* is not aborted and whose id ends in a digit of the digit map is grouped
\* under its id without that digit: alone in its bucket it is emitted as an
\* Original Sample backed by its own raw record, with others as a subsample,
\* with the digit's tag, of a Composite Sample.
C13_CurrentEpochGrouping ==
    (pc = "g_done" /\ g_epoch = "new_format") =>
        \A k \in 1..Len(g_in) :
            LET r == g_in[k]
                id == Stripped(r.id)
            IN  k \in BucketNew(id) =>
                    \E i \in 1..Len(g_out.out) :
                        LET g == g_out.out[i]
                        IN  /\ g.id = id
                            /\ IF Cardinality(BucketNew(id)) = 1
                               THEN g.kind = "original" /\ g.data = r.id
                               ELSE /\ g.kind = "composite"
                                    /\ \E j \in 1..Len(g.subsamples) :
                                         g.subsamples[j] =
                                           [sample_id |-> r.id,
                                            feature |-> feature_map_new[r.id[Len(r.id)]]]

----------------------------------------------------------------------------
(* Properties of the empty project *)

\* C14: empty-project early return.  When process() obtains no grouped
\* sample it has returned at once: no sample task was dispatched,
\* finalize_project was not called and the status is "processing", never
\* "completed"; that is so for every project whose case type is not
\* old_format, for which no grouper is called.
C14_EmptyProjectEarlyReturn ==
    /\ (status \in {"processing", "completed"} /\ samples = <<>>) =>
          /\ pc = "returned"
          /\ tasks = <<>>
          /\ ~ finalized
          /\ status = "processing"
    /\ (status # "unset" /\ case_type # "old_format") =>
          /\ grouped = 0
          /\ samples = <<>>
          /\ status # "completed"

\* process() has returned early on a current-epoch project that has samples
C14_Witness ==
    /\ pc = "returned"
    /\ case_type = "new_format"
    /\ doc.samples # <<>>
    /\ status = "processing"

====
